---- MODULE Spec2Model ----
(***************************************************************************)
(* A model of main.py: the cache-or-build ISRC set loader, the paginated   *)
(* and batched catalogue fetch, and the filter/join/report of main().      *)
(* One run of main() is followed position by position (pc); the reference  *)
(* file, the cache artifact and the output file persist from run to run.   *)
(***************************************************************************)
EXTENDS Integers, Sequences, FiniteSets, TLC

\* ------------------------------------------------------------------ bounds
MaxRows   == 2     \* data lines of the reference file
MaxAlbums == 2     \* releases the service lists for the artist
MaxRuns   == 2     \* runs of main() in one behaviour

\* ------------------------------------------------------- program constants
BatchSize      == 50    \* range(0, len(all_track_ids), 50), chunk = [i:i+50]
TrackPageLimit == 50    \* page size of sp.album_tracks(album['id'])

\* ------------------------------------------------------------ Python values
\* None where the code expects a str (row.get, dict.get); no identifier of the
\* model's alphabet equals it.
NoneStr == "<None>"
\* None where the code expects an object (the loader's and the fetcher's result).
PyNone == [none |-> TRUE]
Some(v) == [none |-> FALSE, val |-> v]
\* Variant: `if isrc is not None:`; an empty cell passes.
TruthyNotNone(s) == s # NoneStr
\* Truth value of a str-or-None (`if isrc:`).
Truthy(s) == s # NoneStr /\ s # ""
\* {} (a dict with no key).
EmptyDict == [k \in {} |-> NoneStr]
\* d.get(k, default)
DictGet(d, k, default) == IF k \in DOMAIN d THEN d[k] ELSE default

Range(s) == {s[n] : n \in 1..Len(s)}
Min(a, b) == IF a < b THEN a ELSE b

RECURSIVE Concat(_)
Concat(ss) == IF ss = <<>> THEN <<>> ELSE Head(ss) \o Concat(Tail(ss))

\* s[from:to] of Python (0-based, end exclusive, clipped to the length).
Slice(s, from, to) == SubSeq(s, from + 1, Min(to, Len(s)))

\* ---------------------------------------------------------- reference file
\* A line whose bytes are not valid UTF-8: reading it raises UnicodeDecodeError.
BadLine == <<"<undecodable>">>
Headers == {<<"Title", "ISRC">>, <<"Title">>}
\* blank line, short row, empty ISRC cell, two identifiers, undecodable line
Lines == {<<>>, <<"t">>, <<"t", "">>, <<"t", "A1">>, <<"t", "B2">>, BadLine}
NoFile == [exists |-> FALSE]
TsvFile(h, ls) == [exists |-> TRUE, header |-> h, lines |-> ls]
LineSeqs == UNION {[1..n -> Lines] : n \in 0..MaxRows}

\* csv.DictReader: one dict per non-blank line, keyed by the header; a cell the
\* line does not have is None (restval).
DictRow(header, line) ==
    [c \in Range(header) |->
        LET n == CHOOSE m \in 1..Len(header) : header[m] = c
        IN  IF n <= Len(line) THEN line[n] ELSE NoneStr]

\* The for loop of lines 45-48 from line n on: the set, or an error.
RECURSIVE ScanRows(_, _, _, _)
ScanRows(header, lines, n, isrc_set) ==
    IF n > Len(lines) THEN [ok |-> TRUE, set |-> isrc_set]
    ELSE IF lines[n] = BadLine THEN [ok |-> FALSE, set |-> isrc_set]
    ELSE IF lines[n] = <<>> THEN ScanRows(header, lines, n + 1, isrc_set)
    ELSE LET isrc == DictGet(DictRow(header, lines[n]), "ISRC", NoneStr)
         IN  ScanRows(header, lines, n + 1,
                      IF Truthy(isrc) THEN isrc_set \cup {isrc} ELSE isrc_set)

\* Lines 40-48 on a file that opens.
Scan(file) == ScanRows(file.header, file.lines, 1, {})

\* ----------------------------------------------------------- cache artifact
\* pickle.dump writes the members one after the other and a final STOP opcode;
\* pickle.load rebuilds the set and raises when the STOP opcode is missing.
NoCache == [exists |-> FALSE]
SetToSeq(S) == CHOOSE s \in [1..Cardinality(S) -> S] : Range(s) = S
PickleDump(S) == [exists |-> TRUE, items |-> SetToSeq(S), complete |-> TRUE]
\* What a dump that fails after n members leaves in the file opened 'wb'.
Truncated(S, n) ==
    [exists |-> TRUE, items |-> SubSeq(SetToSeq(S), 1, n), complete |-> FALSE]
PickleLoad(artifact) == Range(artifact.items)

\* ---------------------------------------------------- the external service
\* What the service holds for the artist: the release listing as the pages it
\* returns, the number of tracks of each release, and the detail entry it
\* returns for a track (entries[2] for the second track of a release,
\* entries[1] for every other track).
TrackCounts == {2, TrackPageLimit + 1}
EntryKinds == {<<"null">>, <<"no_external_ids">>, <<"no_isrc">>,
               <<"isrc", "">>, <<"isrc", "A1">>, <<"isrc", "C3">>}

\* The releases 1..n in pages of `size`.
Paginate(n, size) ==
    IF n = 0 THEN << <<>> >>
    ELSE [p \in 1..((n + size - 1) \div size) |->
            [m \in 1..(Min(p * size, n) - (p - 1) * size) |-> (p - 1) * size + m]]
ReleaseListings ==
    {Paginate(n, size) : n \in 0..MaxAlbums, size \in 1..MaxAlbums}
AlbumsOf(pages) == Range(Concat(pages))
Worlds ==
    UNION {[pages : {pages}, counts : [AlbumsOf(pages) -> TrackCounts],
            entries : EntryKinds \X EntryKinds] : pages \in ReleaseListings}

\* The external key of track j of release a.
TrackKey(a, j) == a * 100 + j
AlbumOfKey(k) == k \div 100
AllTrackKeys(w, a) == [j \in 1..w.counts[a] |-> TrackKey(a, j)]

\* sp.album_tracks(album_id): one page of the release's track listing, and
\* whether the service indicates a further page.
AlbumTracksResult(w, a) ==
    [items |-> Slice(AllTrackKeys(w, a), 0, TrackPageLimit),
     next  |-> w.counts[a] > TrackPageLimit]

\* An entry of the 'tracks' list of sp.tracks(chunk): null, or the track object.
NullEntry == [null |-> TRUE]
TrackObject(w, k) ==
    LET kind == IF k % 100 = 2 THEN w.entries[2] ELSE w.entries[1]
        album == [name |-> AlbumOfKey(k), release_date |-> 2000 + AlbumOfKey(k)]
    IN  CASE kind[1] = "null" -> NullEntry
          [] kind[1] = "no_external_ids" -> [name |-> k, album |-> album]
          [] kind[1] = "no_isrc" ->
                [name |-> k, album |-> album, external_ids |-> EmptyDict]
          [] OTHER ->
                [name |-> k, album |-> album, external_ids |-> [isrc |-> kind[2]]]
\* sp.tracks(chunk)['tracks']: one entry per requested key, in request order.
TracksResult(w, chunk) == [n \in 1..Len(chunk) |-> TrackObject(w, chunk[n])]

\* Variant: a null entry ends the batch instead of being skipped.
RECURSIVE BatchRowsStopAtNull(_)
BatchRowsStopAtNull(tracks) ==
    IF tracks = <<>> \/ Head(tracks) = NullEntry THEN <<>>
    ELSE LET track_details == Head(tracks)
         IN  << [track_name   |-> track_details.name,
                 album        |-> track_details.album.name,
                 release_date |-> track_details.album.release_date,
                 isrc |-> DictGet(DictGet(track_details, "external_ids", EmptyDict),
                                  "isrc", NoneStr)] >>
             \o BatchRowsStopAtNull(Tail(tracks))
\* Lines 84-92: the rows one batch response adds to all_tracks_data.
RECURSIVE BatchRows(_)
BatchRows(tracks) ==
    IF tracks = <<>> THEN <<>>
    ELSE LET track_details == Head(tracks)
         IN  IF track_details # NullEntry /\ DOMAIN track_details # {}
             THEN << [track_name   |-> track_details.name,
                      album        |-> track_details.album.name,
                      release_date |-> track_details.album.release_date,
                      isrc |-> DictGet(DictGet(track_details, "external_ids", EmptyDict),
                                       "isrc", NoneStr)] >>
                  \o BatchRows(Tail(tracks))
             ELSE BatchRows(Tail(tracks))

\* ------------------------------------------------------------------- pandas
\* pd.DataFrame(list of dicts): the columns are the keys of the dicts, so a
\* frame built from an empty list has no column at all.
RowColumns == <<"track_name", "album", "release_date", "isrc">>
PdDataFrame(data) ==
    [columns |-> IF data = <<>> THEN <<>> ELSE RowColumns,
     index   |-> [n \in 1..Len(data) |-> n - 1],
     rows    |-> data]
\* The positions of the true entries of a boolean mask, in order.
RECURSIVE Positions(_, _)
Positions(mask, n) ==
    IF n > Len(mask) THEN <<>>
    ELSE (IF mask[n] THEN <<n>> ELSE <<>>) \o Positions(mask, n + 1)
\* df[mask]: the rows at the true positions, with their index labels.
PdBoolIndex(df, mask) ==
    LET keep == Positions(mask, 1)
    IN  [columns |-> df.columns,
         index   |-> [n \in 1..Len(keep) |-> df.index[keep[n]]],
         rows    |-> [n \in 1..Len(keep) |-> df.rows[keep[n]]]]
\* pandas' isna on an object cell: None is missing, a str (also '') is not.
PdIsNa(v) == v = NoneStr
\* df.dropna(subset=['isrc']) raises KeyError when the frame has no such column.
PdDropNaRaises(df) == "isrc" \notin Range(df.columns)
PdDropNa(df) ==
    PdBoolIndex(df, [n \in 1..Len(df.rows) |-> ~PdIsNa(df.rows[n].isrc)])
\* df.reset_index(drop=True)
PdResetIndex(df) == [df EXCEPT !.index = [n \in 1..Len(df.rows) |-> n - 1]]
\* Variant: the mask is inverted (~df['isrc'].isin(values)).
PdIsinInverted(df, values) ==
    [n \in 1..Len(df.rows) |-> df.rows[n].isrc \notin values]
\* df['isrc'].isin(values)
PdIsin(df, values) == [n \in 1..Len(df.rows) |-> df.rows[n].isrc \in values]
\* df.to_excel(writer, sheet_name=name, index=False): a header row and the rows.
Sheet(name, df) == [name |-> name, header |-> df.columns, rows |-> df.rows]
NoOutput == [exists |-> FALSE]

\* -------------------------------------------------------------------- state
VARIABLES
    tsv,                 \* the file at TSV_FILE_PATH
    cache,               \* the file at CACHE_FILE_PATH
    output,              \* the file at OUTPUT_XLSX_PATH
    svc,                 \* what the external service holds for ARTIST_URI
    pc,                  \* the position of the run of main()
    runs,                \* the number of the run
    unclaimed_isrc_set,  \* main: the loader's result
    artist_catalog_df,   \* main: the fetcher's result, then the filtered catalog
    matches_df,          \* main: the Match Subset
    results,             \* fetcher: the number of the release page last received
    albums,              \* fetcher: the releases collected
    album_n,             \* fetcher: releases whose tracks were listed
    all_track_ids,       \* fetcher: the track keys collected
    all_tracks_data,     \* fetcher: the rows built
    i,                   \* fetcher: the offset of the next batch
    loaderPath,          \* observer: how the loader's run ended
    cacheAtCall,         \* observer: the cache artifact when the loader was called
    tsvOpened,           \* observer: the run opened the reference file
    fetcherCalled,       \* observer: the run called get_artist_catalog_fast
    failedAt,            \* observer: the service call that raised
    chunks,              \* observer: the batches passed to sp.tracks
    outputAtStart,       \* observer: the output file when the run started
    wroteOutput          \* observer: the run wrote the output file

files  == <<tsv, cache, output>>
mainv  == <<unclaimed_isrc_set, artist_catalog_df, matches_df>>
fetchv == <<results, albums, album_n, all_track_ids, all_tracks_data, i>>
loadobs == <<loaderPath, cacheAtCall, tsvOpened>>
fetchobs == <<fetcherCalled, failedAt, chunks>>
outobs == <<outputAtStart, wroteOutput>>
vars == <<files, svc, pc, runs, mainv, fetchv, loadobs, fetchobs, outobs>>

\* ------------------------------------------------------------ initial states
TsvFiles == {NoFile} \cup {TsvFile(h, ls) : h \in Headers, ls \in LineSeqs}
\* A cache artifact on disk was written by an earlier run, from the reference
\* file as it was then.
CachedSets == {{}, {"A1"}, {"A1", "C3"}}
CacheFiles == {NoCache} \cup {PickleDump(S) : S \in CachedSets}
\* The reference file and the release listing the runs with many inputs on the
\* other side start from.
PlainTsv == TsvFile(<<"Title", "ISRC">>, << <<"t", "A1">>, <<"t", "B2">> >>)
PlainWorlds ==
    {w \in Worlds : /\ Len(Concat(w.pages)) <= 1
                    /\ \A a \in AlbumsOf(w.pages) : w.counts[a] = 2
                    /\ w.entries \in {<< <<"isrc", "A1">>, <<"isrc", "">> >>,
                                      << <<"null">>, <<"no_isrc">> >>}}

Fresh ==
    /\ pc = "start"
    /\ unclaimed_isrc_set = PyNone
    /\ artist_catalog_df = PyNone
    /\ matches_df = PyNone
    /\ results = 0
    /\ albums = <<>>
    /\ album_n = 0
    /\ all_track_ids = <<>>
    /\ all_tracks_data = <<>>
    /\ i = 0
    /\ loaderPath = "none"
    /\ cacheAtCall = NoCache
    /\ tsvOpened = FALSE
    /\ fetcherCalled = FALSE
    /\ failedAt = "none"
    /\ chunks = <<>>
    /\ wroteOutput = FALSE

Init ==
    /\ \/ tsv \in TsvFiles /\ cache \in CacheFiles /\ svc \in PlainWorlds
       \/ tsv = PlainTsv /\ cache = NoCache /\ svc \in Worlds
    /\ output = NoOutput
    /\ outputAtStart = output
    /\ runs = 1
    /\ Fresh

\* ----------------------------------------- load_or_create_isrc_set (24-61)
LoaderReturns(result, path) ==
    /\ unclaimed_isrc_set' = result
    /\ loaderPath' = path
    /\ cacheAtCall' = cache
    /\ pc' = "loaded"
    /\ UNCHANGED <<tsv, output, svc, runs, artist_catalog_df, matches_df,
                   fetchv, fetchobs, outobs>>

\* Variant: the cache is checked against the reference file and rebuilt from it
\* when the file can be read.
LoaderCacheHitRevalidate ==
    /\ pc = "start"
    /\ cache.exists /\ cache.complete
    /\ IF tsv.exists /\ Scan(tsv).ok
       THEN /\ tsvOpened' = TRUE
            /\ cache' = PickleDump(Scan(tsv).set)
            /\ LoaderReturns(Some(Scan(tsv).set), "cache_hit")
       ELSE /\ LoaderReturns(Some(PickleLoad(cache)), "cache_hit")
            /\ UNCHANGED <<cache, tsvOpened>>
\* Lines 30-35: the cache artifact exists and unpickles.
LoaderCacheHit ==
    /\ pc = "start"
    /\ cache.exists /\ cache.complete
    /\ LoaderReturns(Some(PickleLoad(cache)), "cache_hit")
    /\ UNCHANGED <<cache, tsvOpened>>

\* Lines 30-33: pickle.load raises; no handler encloses it, in the loader or in
\* main, so the run ends with the exception.
LoaderCacheCorrupt ==
    /\ pc = "start"
    /\ cache.exists /\ ~cache.complete
    /\ loaderPath' = "cache_corrupt"
    /\ cacheAtCall' = cache
    /\ pc' = "crashed"
    /\ UNCHANGED <<files, svc, runs, mainv, fetchv, tsvOpened, fetchobs, outobs>>

\* Lines 43, 56-58: open(tsv_path) raises FileNotFoundError.
LoaderTsvNotFound ==
    /\ pc = "start"
    /\ ~cache.exists /\ ~tsv.exists
    /\ LoaderReturns(PyNone, "not_found")
    /\ UNCHANGED <<cache, tsvOpened>>

\* Lines 43-48, 59-61: the scan raises.
LoaderScanError ==
    /\ pc = "start"
    /\ ~cache.exists /\ tsv.exists
    /\ ~Scan(tsv).ok
    /\ tsvOpened' = TRUE
    /\ LoaderReturns(PyNone, "scan_error")
    /\ UNCHANGED cache

\* Lines 40-55: the scan completes and the set is pickled to the cache file.
LoaderBuild ==
    /\ pc = "start"
    /\ ~cache.exists /\ tsv.exists
    /\ Scan(tsv).ok
    /\ tsvOpened' = TRUE
    /\ cache' = PickleDump(Scan(tsv).set)
    /\ LoaderReturns(Some(Scan(tsv).set), "built")

\* Lines 52, 59-61: open(cache_path, 'wb') raises; no file is created.
LoaderCacheOpenError ==
    /\ pc = "start"
    /\ ~cache.exists /\ tsv.exists
    /\ Scan(tsv).ok
    /\ tsvOpened' = TRUE
    /\ LoaderReturns(PyNone, "open_error")
    /\ UNCHANGED cache

\* Lines 52-53, 59-61: the file is created by open(cache_path, 'wb') and
\* pickle.dump raises after writing n members.
LoaderCacheDumpError ==
    /\ pc = "start"
    /\ ~cache.exists /\ tsv.exists
    /\ Scan(tsv).ok
    /\ tsvOpened' = TRUE
    /\ \E n \in 0..Cardinality(Scan(tsv).set) :
          cache' = Truncated(Scan(tsv).set, n)
    /\ LoaderReturns(PyNone, "dump_error")

\* -------------------------------------------------------- main (103-110)
\* Lines 104-105: the loader returned None.
MainLoaderNone ==
    /\ pc = "loaded"
    /\ unclaimed_isrc_set.none
    /\ pc' = "returned"
    /\ UNCHANGED <<files, svc, runs, mainv, fetchv, loadobs, fetchobs, outobs>>

\* Line 108: main calls get_artist_catalog_fast.
MainCallFetcher ==
    /\ pc = "loaded"
    /\ ~unclaimed_isrc_set.none
    /\ fetcherCalled' = TRUE
    /\ pc' = "auth"
    /\ UNCHANGED <<files, svc, runs, mainv, fetchv, loadobs, failedAt, chunks, outobs>>

\* ------------------------------------------ get_artist_catalog_fast (64-96)
FetchFrame == <<files, svc, runs, unclaimed_isrc_set, matches_df, loadobs,
                fetcherCalled, outobs>>
\* The position after the release listing is complete, and after the track
\* listings are.
AfterTracks(ids) == IF Len(ids) = 0 THEN "return" ELSE "batches"
AfterAlbums(as) == IF Len(as) = 0 THEN AfterTracks(<<>>) ELSE "album_tracks"

\* Lines 67-69.
Authenticate ==
    /\ pc = "auth"
    /\ pc' = "artist_albums"
    /\ UNCHANGED <<FetchFrame, artist_catalog_df, fetchv, failedAt, chunks>>

\* Lines 70-72: the first page of the release listing.
ArtistAlbums ==
    /\ pc = "artist_albums"
    /\ results' = 1
    /\ albums' = svc.pages[1]
    /\ pc' = IF 1 < Len(svc.pages) THEN "paging" ELSE AfterAlbums(albums')
    /\ UNCHANGED <<FetchFrame, artist_catalog_df, album_n, all_track_ids,
                   all_tracks_data, i, failedAt, chunks>>

\* Lines 72-74: while results['next'].
NextPage ==
    /\ pc = "paging"
    /\ results' = results + 1
    /\ albums' = albums \o svc.pages[results']
    /\ pc' = IF results' < Len(svc.pages) THEN "paging" ELSE AfterAlbums(albums')
    /\ UNCHANGED <<FetchFrame, artist_catalog_df, album_n, all_track_ids,
                   all_tracks_data, i, failedAt, chunks>>

\* Lines 75-78: one release; the 'items' of the response are appended and its
\* 'next' is not read.
AlbumTracks ==
    /\ pc = "album_tracks"
    /\ LET album == albums[album_n + 1]
           album_tracks_result == AlbumTracksResult(svc, album)
       IN  /\ all_track_ids' = all_track_ids \o album_tracks_result.items
           /\ album_n' = album_n + 1
           /\ pc' = IF album_n' < Len(albums) THEN "album_tracks"
                    ELSE AfterTracks(all_track_ids')
    /\ UNCHANGED <<FetchFrame, artist_catalog_df, results, albums,
                   all_tracks_data, i, failedAt, chunks>>

\* Lines 81-92: one batch.
TracksBatch ==
    /\ pc = "batches"
    /\ LET chunk == Slice(all_track_ids, i, i + BatchSize)
           track_details_batch == TracksResult(svc, chunk)
       IN  /\ chunks' = Append(chunks, chunk)
           /\ all_tracks_data' = all_tracks_data \o BatchRows(track_details_batch)
    /\ i' = i + BatchSize
    /\ pc' = IF i' < Len(all_track_ids) THEN "batches" ELSE "return"
    /\ UNCHANGED <<FetchFrame, artist_catalog_df, results, albums, album_n,
                   all_track_ids, failedAt>>

\* Line 93.
FetchReturn ==
    /\ pc = "return"
    /\ artist_catalog_df' = Some(PdDataFrame(all_tracks_data))
    /\ pc' = "fetched"
    /\ UNCHANGED <<FetchFrame, fetchv, failedAt, chunks>>

\* Variant: the handler returns the rows built so far.
ServiceErrorPartial ==
    /\ pc \in {"auth", "artist_albums", "paging", "album_tracks", "batches"}
    /\ failedAt' = pc
    /\ artist_catalog_df' = Some(PdDataFrame(all_tracks_data))
    /\ pc' = "fetched"
    /\ UNCHANGED <<FetchFrame, fetchv, chunks>>
\* Lines 94-96: a call of the service raises (authentication, a page of the
\* release listing, a track listing, a batch); the handler returns None.
ServiceCalls == {"auth", "artist_albums", "paging", "album_tracks", "batches"}
ServiceError ==
    /\ pc \in ServiceCalls
    /\ failedAt' = pc
    /\ artist_catalog_df' = PyNone
    /\ pc' = "fetched"
    /\ UNCHANGED <<FetchFrame, fetchv, chunks>>

\* -------------------------------------------------------- main (109-124)
\* Lines 109-110: the fetcher returned None.
MainFetchNone ==
    /\ pc = "fetched"
    /\ artist_catalog_df.none
    /\ pc' = "returned"
    /\ UNCHANGED <<files, svc, runs, mainv, fetchv, loadobs, fetchobs, outobs>>

\* Line 112 raises KeyError: the frame has no 'isrc' column. Nothing in main
\* handles it.
DropNaKeyError ==
    /\ pc = "fetched"
    /\ ~artist_catalog_df.none
    /\ PdDropNaRaises(artist_catalog_df.val)
    /\ pc' = "crashed"
    /\ UNCHANGED <<files, svc, runs, mainv, fetchv, loadobs, fetchobs, outobs>>

\* Lines 112-113: dropna and reset_index, both in place.
DropNa ==
    /\ pc = "fetched"
    /\ ~artist_catalog_df.none
    /\ ~PdDropNaRaises(artist_catalog_df.val)
    /\ artist_catalog_df' = Some(PdResetIndex(PdDropNa(artist_catalog_df.val)))
    /\ pc' = "filtered"
    /\ UNCHANGED <<files, svc, runs, unclaimed_isrc_set, matches_df, fetchv,
                   loadobs, fetchobs, outobs>>

\* Line 116.
Match ==
    /\ pc = "filtered"
    /\ matches_df' = Some(PdBoolIndex(artist_catalog_df.val,
                            PdIsin(artist_catalog_df.val, unclaimed_isrc_set.val)))
    /\ pc' = "matched"
    /\ UNCHANGED <<files, svc, runs, unclaimed_isrc_set, artist_catalog_df,
                   fetchv, loadobs, fetchobs, outobs>>

\* Lines 120-122: the two sheets are written to the output file.
WriteExcel ==
    /\ pc = "matched"
    /\ output' = [exists |-> TRUE,
                  sheets |-> << Sheet("Artist Catalog (All)", artist_catalog_df.val),
                                Sheet("Matches in Unclaimed Dataset", matches_df.val) >>]
    /\ wroteOutput' = TRUE
    /\ pc' = "done"
    /\ UNCHANGED <<tsv, cache, svc, runs, mainv, fetchv, loadobs, fetchobs,
                   outputAtStart>>

\* ------------------------------------------------- between the runs of main
Ended == pc \in {"returned", "crashed", "done"}

\* The script is started again; the three files are as the last run left them.
NewRun ==
    /\ Ended
    /\ runs < MaxRuns
    /\ runs' = runs + 1
    /\ outputAtStart' = output
    /\ pc' = "start"
    /\ unclaimed_isrc_set' = PyNone
    /\ artist_catalog_df' = PyNone
    /\ matches_df' = PyNone
    /\ results' = 0
    /\ albums' = <<>>
    /\ album_n' = 0
    /\ all_track_ids' = <<>>
    /\ all_tracks_data' = <<>>
    /\ i' = 0
    /\ loaderPath' = "none"
    /\ cacheAtCall' = NoCache
    /\ tsvOpened' = FALSE
    /\ fetcherCalled' = FALSE
    /\ failedAt' = "none"
    /\ chunks' = <<>>
    /\ wroteOutput' = FALSE
    /\ UNCHANGED <<files, svc>>

\* Before a later run, the reference file is replaced or removed.
EditedFiles == {NoFile, TsvFile(<<"Title", "ISRC">>, << <<"t", "C3">> >>)}
EditReference ==
    /\ pc = "start" /\ runs > 1
    /\ \E f \in EditedFiles : tsv' = f
    /\ UNCHANGED <<cache, output, svc, pc, runs, mainv, fetchv, loadobs, fetchobs,
                   outobs>>

\* Before a later run, the cache artifact is deleted by hand.
DeleteCache ==
    /\ pc = "start" /\ runs > 1
    /\ cache.exists
    /\ cache' = NoCache
    /\ UNCHANGED <<tsv, output, svc, pc, runs, mainv, fetchv, loadobs, fetchobs,
                   outobs>>

Next ==
    \/ LoaderCacheHit \/ LoaderCacheCorrupt \/ LoaderTsvNotFound
    \/ LoaderScanError \/ LoaderBuild \/ LoaderCacheOpenError
    \/ LoaderCacheDumpError
    \/ MainLoaderNone \/ MainCallFetcher
    \/ Authenticate \/ ArtistAlbums \/ NextPage \/ AlbumTracks \/ TracksBatch
    \/ FetchReturn \/ ServiceError
    \/ MainFetchNone \/ DropNaKeyError \/ DropNa \/ Match \/ WriteExcel
    \/ NewRun \/ EditReference \/ DeleteCache

Spec == Init /\ [][Next]_vars

\* =================================================================== claims
LoaderRan == loaderPath # "none"
LoaderFailed == loaderPath \in {"not_found", "scan_error", "open_error", "dump_error"}
FetchSucceeded == pc = "fetched" /\ ~artist_catalog_df.none

\* C1: whenever main has computed the Match Subset, it is exactly the rows of
\* the filtered catalog whose identifier is a member of the Identifier Set, in
\* the same order and with the same multiplicity.
C1_MatchExact ==
    pc \in {"matched", "done"} =>
        LET InSet(r) == r.isrc \in unclaimed_isrc_set.val
        IN  matches_df.val.rows = SelectSeq(artist_catalog_df.val.rows, InSet)
\* C1 witness: a finished run whose catalog has several rows with the same
\* identifier in the set and a row with an identifier outside it.
C1_Witness ==
    /\ pc = "done"
    /\ Len(matches_df.val.rows) >= 2
    /\ Len(matches_df.val.rows) < Len(artist_catalog_df.val.rows)
    /\ matches_df.val.rows[1].isrc = matches_df.val.rows[2].isrc

\* The reference file can be read to its end.
Readable(file) == file.exists /\ BadLine \notin Range(file.lines)
\* The distinct non-empty values of the "ISRC" column of the data rows.
IsrcColumn(file) ==
    {n \in 1..Len(file.header) : file.header[n] = "ISRC"}
DistinctIsrcs(file) ==
    {l[n] : <<l, n>> \in {ln \in Range(file.lines) \X IsrcColumn(file) :
                            ln[2] <= Len(ln[1]) /\ ln[1][ln[2]] # ""}}

C3_CacheWins ==
    (LoaderRan /\ cacheAtCall.exists) =>
        /\ ~tsvOpened
        /\ cache = cacheAtCall
        /\ cacheAtCall.complete =>
              unclaimed_isrc_set =
                 Some({cacheAtCall.items[n] : n \in 1..Len(cacheAtCall.items)})
\* C3 witness: the loader returned a cached set that differs from what the
\* reference file now holds.
C3_Witness ==
    /\ loaderPath = "cache_hit"
    /\ Readable(tsv)
    /\ unclaimed_isrc_set.val # DistinctIsrcs(tsv)

\* C4 as stated: no row whose identifier is None or the empty string is in a
\* sheet of the output file.
C4_NoAbsentOrEmpty ==
    output.exists =>
        \A s \in 1..2 : \A n \in 1..Len(output.sheets[s].rows) :
            output.sheets[s].rows[n].isrc \notin {NoneStr, ""}

\* C5: a failed service call gives no result and no partial catalog and the
\* run ends without touching the output file; when the loader gives no result
\* the fetcher is not called and the output file is not touched; the output
\* file is written only after both stages gave a result.
C5_NoPartialOutput ==
    /\ failedAt # "none" =>
          /\ artist_catalog_df = PyNone
          /\ ~wroteOutput
          /\ pc \in {"fetched", "returned"}
    /\ (LoaderRan /\ unclaimed_isrc_set.none) => ~fetcherCalled /\ ~wroteOutput
    /\ wroteOutput =>
          /\ ~unclaimed_isrc_set.none
          /\ ~artist_catalog_df.none
          /\ failedAt = "none"
    /\ ~wroteOutput => output = outputAtStart
\* C5 witness: the release listing raised on a later page, in a run that
\* started with an output file of an earlier run.
C5_Witness ==
    /\ failedAt = "paging"
    /\ pc = "returned"
    /\ outputAtStart.exists
    /\ all_track_ids = <<>> /\ albums # <<>>

\* C6 as stated: a cache artifact that does not unpickle makes the loader
\* return None to main, which stops the run; the error does not leave the loader.
C6_CorruptCacheHandled ==
    loaderPath = "cache_corrupt" => pc \in {"loaded", "returned"}

\* C7 as stated: when the fetch succeeds, the keys whose details were fetched
\* include every track of every release.
C7_AllTracksCollected ==
    FetchSucceeded =>
        \A a \in Range(albums) :
            Range(AllTrackKeys(svc, a)) \subseteq Range(Concat(chunks))

\* C8 as stated: after a loader run the cache artifact does not exist or holds
\* a complete set, and a run that returned None left no cache artifact.
C8_CacheAllOrNothing ==
    LoaderRan =>
        /\ cache.exists => cache.complete
        /\ LoaderFailed => ~cache.exists

PresentEntries(w, ids) ==
    LET Present(e) == e # NullEntry IN SelectSeq(TracksResult(w, ids), Present)
EntryIsrc(e) ==
    IF "external_ids" \in DOMAIN e /\ "isrc" \in DOMAIN e.external_ids
    THEN e.external_ids.isrc ELSE NoneStr
\* C9: when the fetch succeeds, the details were requested in consecutive
\* batches of 1 to 50 keys that make up the collected keys, and the Catalog
\* Table has one row for each non-null entry returned, in request order; a
\* null entry adds no row, an entry without a recording identifier adds a row
\* whose identifier is None.
C9_BatchesAndRows ==
    FetchSucceeded =>
        /\ \A n \in 1..Len(chunks) : Len(chunks[n]) \in 1..BatchSize
        /\ Concat(chunks) = all_track_ids
        /\ LET present == PresentEntries(svc, all_track_ids)
               rows == artist_catalog_df.val.rows
           IN  /\ Len(rows) = Len(present)
               /\ \A n \in 1..Len(rows) :
                     /\ rows[n].track_name = present[n].name
                     /\ rows[n].album = present[n].album.name
                     /\ rows[n].release_date = present[n].album.release_date
                     /\ rows[n].isrc = EntryIsrc(present[n])
\* C9 witness: a successful fetch in two batches whose responses hold a null
\* entry and entries without a recording identifier.
C9_Witness ==
    /\ FetchSucceeded
    /\ Len(chunks) = 2
    /\ Len(artist_catalog_df.val.rows) < Len(all_track_ids)
    /\ \E n \in 1..Len(artist_catalog_df.val.rows) :
          artist_catalog_df.val.rows[n].isrc = NoneStr

\* C10 as stated: a run in which the loader and the fetcher both returned a
\* result ends with the two sheets written to the output file.
C10_ReportWritten ==
    (Ended /\ ~unclaimed_isrc_set.none /\ ~artist_catalog_df.none) =>
        /\ pc = "done"
        /\ wroteOutput
        /\ [n \in 1..Len(output.sheets) |-> output.sheets[n].name] =
              <<"Artist Catalog (All)", "Matches in Unclaimed Dataset">>

====
